---------------------------- MODULE Spec2Model ----------------------------
(***************************************************************************)
(* Pingdom -> Zabbix reconciliation daemon                                 *)
(* (src/pingdom-zabbix-integration.py).                                    *)
(*                                                                         *)
(* Two specifications share this module:                                   *)
(*   SpecRetry  one call of fetch_with_retry against a scripted server;    *)
(*   Spec       main_async: login, then the fetch / gather(process_check)  *)
(*              / item.create / trigger.create / item.update / sleep loop. *)
(* Strings of the program whose characters matter (check names, host       *)
(* names, item keys) are sequences of one-character strings.               *)
(***************************************************************************)
EXTENDS Integers, Sequences, FiniteSets, TLC

VARIABLES
    pc,             \* where main_async is suspended
    auth_token,     \* main_async's auth_token
    host_id_cache,  \* the module-level dict host_id_cache
    pingdom_checks, \* pingdom_data['checks'] of the current cycle
    tasks,          \* the process_check tasks handed to asyncio.gather
    host_ids,       \* main_async's host_ids
    check_names,    \* main_async's check_names
    statuses,       \* main_async's statuses
    cycle,          \* history: number of the current iteration of the loop
    rpc_log,        \* history: mutator calls of the current cycle
    exit_cause,     \* history: the await whose exception ended main_async
    past_resolved,  \* history: name -> id of each earlier, fully resolved cycle
    clean_cycle,    \* history: the cycle met no host and no failed answer so far
    fr_script,      \* SpecRetry: the statuses the server answers with
    fr_result,      \* SpecRetry: what fetch_with_retry did
    sn_pc,          \* SpecSanitize: how often sanitize_host_name was applied
    sn_input,       \* SpecSanitize: the host name handed to process_check
    sn_once,        \* SpecSanitize: sanitized_host_name of process_check
    sn_twice,       \* SpecSanitize: sanitized_host_name of create_zabbix_host
    fan_pc,         \* SpecFanout: where main_async is suspended
    fan_n,          \* SpecFanout: len(pingdom_data['checks'])
    fan_tasks       \* SpecFanout: the process_check tasks handed to gather

main_vars == <<pc, auth_token, host_id_cache, pingdom_checks, tasks, host_ids,
               check_names, statuses, cycle, rpc_log, exit_cause, past_resolved,
               clean_cycle>>
retry_vars == <<fr_script, fr_result>>
sanitize_vars == <<sn_pc, sn_input, sn_once, sn_twice>>
fanout_vars == <<fan_pc, fan_n, fan_tasks>>
aux_vars == <<retry_vars, sanitize_vars, fanout_vars>>
vars == <<main_vars, aux_vars>>

None == "None"

\* ------------------------------------------------------------------ bounds
MaxResp == 4
MaxCycles == 2
MaxLen == 3
MaxFetched == 11

\* ------------------------------------------------- retry_strategy (37-42)
RetryTotal == 3
BackoffFactor == 1
StatusForcelist == {429, 500, 502, 503, 504}

\* A server answer is its HTTP status; 0 stands for an attempt that got no
\* status at all (connection error, timeout).
NoStatus == 0
HttpStatuses == {NoStatus, 200, 401, 404} \cup StatusForcelist

RECURSIVE Scripts(_)
Scripts(n) ==
    IF n = 0 THEN {<<>>}
    ELSE {Append(s, st) : s \in Scripts(n - 1), st \in HttpStatuses}

\* response.raise_for_status(): a ClientResponseError for a status >= 400
RaisesForStatus(status) == status >= 400

\* Mutant of AttemptOutcome: line 62-63 left out, every error status is
\* retried.
AttemptOutcome_RetryAnyError(status) ==
    IF status = NoStatus THEN "raise"
    ELSE IF ~RaisesForStatus(status) THEN "return"
    ELSE "retry"

\* One pass through the body of the for loop (lines 57-65) with the
\* server answering `status`: the request returns, raises, or is retried.
AttemptOutcome(status) ==
    IF status = NoStatus THEN "raise"
    ELSE IF ~RaisesForStatus(status) THEN "return"
    ELSE IF status \notin StatusForcelist THEN "raise"
    ELSE "retry"

\* asyncio.sleep(backoff_factor * (2 ** attempt))
Backoff(attempt) == BackoffFactor * (2 ^ attempt)

\* Mutant of fetch_loop: range(total + 1), one attempt more.
RECURSIVE fetch_loop_OneMore(_, _, _)
fetch_loop_OneMore(resps, attempt, sleeps) ==
    IF attempt > RetryTotal
    THEN [kind |-> "max_retries", attempts |-> attempt, sleeps |-> sleeps,
          resp |-> 0]
    ELSE LET o == AttemptOutcome(resps[attempt + 1]) IN
         IF o = "retry"
         THEN fetch_loop_OneMore(resps, attempt + 1,
                                 Append(sleeps, Backoff(attempt)))
         ELSE [kind |-> o, attempts |-> attempt + 1, sleeps |-> sleeps,
               resp |-> attempt + 1]

\* for attempt in range(retry_strategy.total): ... ; raise (line 66)
RECURSIVE fetch_loop(_, _, _)
fetch_loop(resps, attempt, sleeps) ==
    IF attempt >= RetryTotal
    THEN [kind |-> "max_retries", attempts |-> attempt, sleeps |-> sleeps,
          resp |-> 0]
    ELSE LET o == AttemptOutcome(resps[attempt + 1]) IN
         IF o = "retry"
         THEN fetch_loop(resps, attempt + 1, Append(sleeps, Backoff(attempt)))
         ELSE [kind |-> o, attempts |-> attempt + 1, sleeps |-> sleeps,
               resp |-> attempt + 1]

\* kind: "return" (the JSON of answer number resp), "raise" (the error of
\* answer number resp propagates) or "max_retries" (the raise of line 66,
\* reached after the sleep that follows the last attempt; whatever the
\* exception built there, the caller gets an exception)
fetch_with_retry(resps) == fetch_loop(resps, 0, <<>>)

\* fetch_with_retry not yet called
Pending == [kind |-> "pending", attempts |-> 0, sleeps |-> <<>>, resp |-> 0]

\* The ways one call through fetch_with_retry can end for its caller.
FetchOutcomes == {fetch_with_retry(s).kind : s \in Scripts(MaxResp)}


\* ------------------------------------------------------------ strings
LowerChars == {"a","b","c","d","e","f","g","h","i","j","k","l","m",
               "n","o","p","q","r","s","t","u","v","w","x","y","z"}
UpperChars == {"A","B","C","D","E","F","G","H","I","J","K","L","M",
               "N","O","P","Q","R","S","T","U","V","W","X","Y","Z"}
DigitChars == {"0","1","2","3","4","5","6","7","8","9"}
\* the complement of the class [^a-zA-Z0-9_] of line 51
WordChars == LowerChars \cup UpperChars \cup DigitChars \cup {"_"}

\* Mutant of sanitize_host_name: the characters outside the class are
\* dropped, not replaced.
sanitize_host_name_Strip(host_name) ==
    SelectSeq(host_name, LAMBDA c : c \in WordChars)

\* re.sub(r'[^a-zA-Z0-9_]', '_', host_name)
sanitize_host_name(host_name) ==
    [i \in 1..Len(host_name) |->
        IF host_name[i] \in WordChars THEN host_name[i] ELSE "_"]

\* f"Pingdom_{check_name}" (line 230)
Prefix == <<"P", "i", "n", "g", "d", "o", "m", "_">>
HostName(check_name) == Prefix \o check_name

\* sanitized_host_name of process_check (line 231)
EntityName(check_name) == sanitize_host_name(HostName(check_name))

\* "host" of the host.create payload: create_zabbix_host sanitizes the
\* name it is given once more (lines 106, 114)
CreatedHost(check_name) == sanitize_host_name(EntityName(check_name))

\* Mutant of StatusValue: only "down" counts as not up.
StatusValue_DownOnly(status) == IF status = "down" THEN 0 ELSE 1

\* status = 1 if check['status'] == "up" else 0 (line 229)
StatusValue(status) == IF status = "up" THEN 1 ELSE 0

\* f"pingdom.status[{check_name}]" (lines 138, 171, 201)
ItemKey(check_name) == <<"pingdom.status[">> \o check_name \o <<"]">>

\* f"{{Pingdom_{check_name}:{item_key}.last()}}=0" (line 172)
TriggerExpression(check_name) ==
    <<"{">> \o Prefix \o check_name \o <<":">> \o ItemKey(check_name)
        \o <<".last()}=0">>

\* ------------------------------------------------------------- inputs
\* Check names the external source may report, in the order it lists
\* them; the last two differ only in a character that sanitize_host_name
\* rewrites.
NameOrder == << <<"A">>, <<"D", " ">>, <<"D", "_">> >>
PingdomStatuses == {"up", "down", "paused"}

\* The check lists a fetch may return: any selection of the names, each
\* with any status (names are unique within one fetch).
RECURSIVE ListsFrom(_)
ListsFrom(k) ==
    IF k > Len(NameOrder) THEN {<<>>}
    ELSE ListsFrom(k + 1) \cup
         {<<[name |-> NameOrder[k], status |-> st]>> \o l :
             l \in ListsFrom(k + 1), st \in PingdomStatuses}

FetchLists == ListsFrom(1)

\* Host ids the target system may answer with (non-empty strings).
HostIds == {"10084", "10085"}

\* JSON bodies of the remote answers, by call.
ErrorBody == [error |-> "e"]
LoginBodies == {ErrorBody, [result |-> "token"]}
FetchBodies == {ErrorBody} \cup {[checks |-> l] : l \in FetchLists}
HostGetBodies ==
    {ErrorBody, [result |-> <<>>]}
        \cup {[result |-> <<[hostid |-> h]>>] : h \in HostIds}
HostCreateBodies ==
    {ErrorBody, [result |-> [hostids |-> <<>>]]}
        \cup {[result |-> [hostids |-> <<h>>]] : h \in HostIds}
MutatorBodies == {ErrorBody, [result |-> "ok"]}

\* ------------------------------------------------------ Python values
\* Truth value of a host id (a string or None).
Truthy(v) == v # None /\ v # ""

\* A component of process_check's result tuple: <<>> is None, <<x>> is x.
NoneV == <<>>
Some(x) == <<x>>

\* host_id_cache[host_name] = host_id
CacheStore(cache, host_name, host_id) ==
    [n \in DOMAIN cache \cup {host_name} |->
        IF n = host_name THEN host_id ELSE cache[n]]

EmptyCache == [n \in {} |-> None]


\* ------------------------------------------------------ process_check
\* A task of asyncio.gather: at is the await it is suspended at
\* ("host_get": line 234, "host_get2": line 107, "host_create": line 124)
\* or how it ended; calls are the remote calls it has issued.
Suspended(at, calls) == [at |-> at, result |-> <<>>, calls |-> calls]
Returned(result, calls) == [at |-> "returned", result |-> result, calls |-> calls]
Raised(t) == [t EXCEPT !.at = "raised"]

\* return None, None, None (line 240)
FailedResult == <<NoneV, NoneV, NoneV>>
\* return host_id, check_name, status (line 244)
CheckResult(check, host_id) ==
    <<Some(host_id), Some(check.name), Some(StatusValue(check.status))>>

\* process_check from line 238 on, create_zabbix_host having returned host_id
PC_AfterCreate(check, calls, host_id) ==
    IF ~Truthy(host_id)
    THEN Returned(FailedResult, calls)
    ELSE Returned(CheckResult(check, host_id), calls)

\* create_zabbix_host from the test of line 107 on, get_zabbix_host_id
\* having returned host_id: return the cached id, or issue host.create
CZH_AfterLookup(check, calls, host_id, cache) ==
    LET sanitized == CreatedHost(check.name) IN
    IF Truthy(host_id)
    THEN PC_AfterCreate(check, calls, cache[sanitized])
    ELSE Suspended("host_create", Append(calls, "host.create"))

\* create_zabbix_host up to its first await: sanitize again, then
\* get_zabbix_host_id answers from the cache or issues host.get
CZH_Start(check, calls, cache) ==
    LET sanitized == CreatedHost(check.name) IN
    IF sanitized \in DOMAIN cache
    THEN CZH_AfterLookup(check, calls, cache[sanitized], cache)
    ELSE Suspended("host_get2", Append(calls, "host.get"))

\* process_check from line 235 on, get_zabbix_host_id having returned host_id
PC_AfterLookup(check, calls, host_id, cache) ==
    IF ~Truthy(host_id)
    THEN CZH_Start(check, calls, cache)
    ELSE Returned(CheckResult(check, host_id), calls)

\* process_check up to its first await (lines 228-234, 87-98)
PC_Start(check, cache) ==
    IF EntityName(check.name) \in DOMAIN cache
    THEN PC_AfterLookup(check, <<>>, cache[EntityName(check.name)], cache)
    ELSE Suspended("host_get", <<"host.get">>)

\* get_zabbix_host_id, line 99
FoundHostId(body) ==
    IF body.result # <<>> THEN body.result[1].hostid ELSE None

\* get_zabbix_host_id, lines 100-101
CacheAfterGet(cache, host_name, host_id) ==
    IF Truthy(host_id) THEN CacheStore(cache, host_name, host_id) ELSE cache

\* create_zabbix_host, line 126: the id, or None for the KeyError or
\* IndexError that lines 130-132 turn into None
CreatedHostId(body) ==
    IF "result" \notin DOMAIN body THEN None
    ELSE IF body.result.hostids = <<>> THEN None
    ELSE body.result.hostids[1]

\* Mutant of CacheAfterCreate: the outcome is cached whatever it is, a
\* failed creation as None.
CacheAfterCreate_StoreFailure(cache, host_name, body) ==
    CacheStore(cache, host_name, CreatedHostId(body))

\* create_zabbix_host, line 127 (not reached when line 126 raised)
CacheAfterCreate(cache, host_name, body) ==
    IF "result" \notin DOMAIN body \/ body.result.hostids = <<>> THEN cache
    ELSE CacheStore(cache, host_name, body.result.hostids[1])

\* ----------------------------------------------------- batch mutators
Min(a, b) == IF a <= b THEN a ELSE b

\* items_payload of create_zabbix_item_batch (lines 136-149)
ItemsPayload(hids, names) ==
    [i \in 1..Min(Len(hids), Len(names)) |->
        [name |-> names[i], key_ |-> ItemKey(names[i]), hostid |-> hids[i]]]

\* triggers_payload of create_zabbix_trigger_batch (lines 169-179)
TriggersPayload(hids, names) ==
    [i \in 1..Min(Len(hids), Len(names)) |->
        [expression |-> TriggerExpression(names[i]), hostid |-> hids[i]]]

\* items_payload of send_data_to_zabbix_batch (lines 199-208)
StatusPayload(hids, names, sts) ==
    [i \in 1..Min(Min(Len(hids), Len(names)), Len(sts)) |->
        [hostid |-> hids[i], key_ |-> ItemKey(names[i]), value |-> sts[i]]]

Call(method, params) == [method |-> method, ev |-> "call", params |-> params]
Ended(method, how) == [method |-> method, ev |-> how, params |-> <<>>]

\* what the try blocks of the mutators (160-165, 190-195, 219-224) make of
\* a body: it is logged and returned whatever it holds
MutatorEnd(method, body) ==
    Ended(method, IF "result" \in DOMAIN body THEN "return" ELSE "return_error")

\* no check of the fetched list has its entity name in the cache when the
\* tasks of line 260 start (line 88 misses for each of them)
NoHostKnown(checks, cache) ==
    \A i \in DOMAIN checks : EntityName(checks[i].name) \notin DOMAIN cache

\* ------------------------------------------------------------- Init
\* main_async not yet started: module state as after import (line 47)
MainInit ==
    /\ pc = "login"
    /\ auth_token = None
    /\ host_id_cache = EmptyCache
    /\ pingdom_checks = <<>>
    /\ tasks = <<>>
    /\ host_ids = <<>>
    /\ check_names = <<>>
    /\ statuses = <<>>
    /\ cycle = 1
    /\ rpc_log = <<>>
    /\ exit_cause = None
    /\ past_resolved = {}
    /\ clean_cycle = FALSE

\* no separate call of fetch_with_retry, none of sanitize_host_name
RetryIdle == fr_script = <<>> /\ fr_result = Pending
SanitizeIdle ==
    sn_pc = "idle" /\ sn_input = <<>> /\ sn_once = <<>> /\ sn_twice = <<>>
FanoutIdle == fan_pc = "idle" /\ fan_n = 0 /\ fan_tasks = <<>>

Init == MainInit /\ RetryIdle /\ SanitizeIdle /\ FanoutIdle

\* An exception reaches the except clauses of main_async (281-286): the
\* coroutine returns and asyncio.run cancels the tasks still pending.
Cancelled(t) ==
    IF t.at \in {"returned", "raised"} THEN t ELSE [t EXCEPT !.at = "cancelled"]

Terminate(cause) ==
    /\ pc' = "done"
    /\ exit_cause' = cause
    /\ tasks' = [i \in DOMAIN tasks |-> Cancelled(tasks[i])]

\* ------------------------------------------------------------ actions
\* Each action is one resumption of a coroutine: from the answer of the
\* call it awaits up to its next await.  Every answer is an input: how
\* fetch_with_retry ended (FetchOutcomes) and, if it returned, the JSON body.

\* Mutant of LoginResp: a failed login is recorded but the loop is entered
\* all the same, without a token.
LoginResp_CarryOn ==
    /\ pc = "login"
    /\ \E out \in FetchOutcomes, body \in LoginBodies :
        IF out # "return" \/ "result" \notin DOMAIN body
        THEN /\ exit_cause' = "login"
             /\ pc' = "fetch"
             /\ UNCHANGED <<auth_token, tasks>>
        ELSE /\ auth_token' = body.result
             /\ pc' = "fetch"
             /\ UNCHANGED <<exit_cause, tasks>>
    /\ UNCHANGED <<host_id_cache, pingdom_checks, host_ids, check_names,
                   statuses, cycle, rpc_log, past_resolved, clean_cycle,
                   aux_vars>>

\* auth_token = await zabbix_login(session) (line 250, 68-78), then the
\* first get_pingdom_checks is issued
LoginResp ==
    /\ pc = "login"
    /\ \E out \in FetchOutcomes, body \in LoginBodies :
        IF out # "return" \/ "result" \notin DOMAIN body
        THEN /\ Terminate("login")
             /\ UNCHANGED auth_token
        ELSE /\ auth_token' = body.result
             /\ pc' = "fetch"
             /\ UNCHANGED <<exit_cause, tasks>>
    /\ UNCHANGED <<host_id_cache, pingdom_checks, host_ids, check_names,
                   statuses, cycle, rpc_log, past_resolved, clean_cycle,
                   aux_vars>>

\* pingdom_data = await get_pingdom_checks(session); lines 256-261 up to
\* the await of gather, every task having run to its first await
FetchResp ==
    /\ pc = "fetch"
    /\ \E out \in FetchOutcomes, body \in FetchBodies :
        IF out # "return" \/ "checks" \notin DOMAIN body
        THEN /\ Terminate("fetch")
             /\ UNCHANGED <<pingdom_checks, host_ids, check_names, statuses,
                            clean_cycle>>
        ELSE /\ pingdom_checks' = body.checks
             /\ host_ids' = <<>>
             /\ check_names' = <<>>
             /\ statuses' = <<>>
             /\ tasks' = [i \in 1..Len(body.checks) |->
                            PC_Start(body.checks[i], host_id_cache)]
             /\ pc' = "gather"
             /\ clean_cycle' = NoHostKnown(body.checks, host_id_cache)
             /\ UNCHANGED exit_cause
    /\ UNCHANGED <<auth_token, host_id_cache, cycle, rpc_log, past_resolved,
                   aux_vars>>

\* task i resumes from the host.get of line 234
HostGetResp(i) ==
    /\ pc = "gather"
    /\ tasks[i].at = "host_get"
    /\ \E out \in FetchOutcomes, body \in HostGetBodies :
        LET check == pingdom_checks[i]
            name == EntityName(check.name)
        IN  IF out # "return" \/ "result" \notin DOMAIN body
            THEN /\ tasks' = [tasks EXCEPT ![i] = Raised(@)]
                 /\ clean_cycle' = FALSE
                 /\ UNCHANGED host_id_cache
            ELSE LET hid == FoundHostId(body)
                     cache == CacheAfterGet(host_id_cache, name, hid)
                 IN  /\ host_id_cache' = cache
                     /\ clean_cycle' = (clean_cycle /\ body.result = <<>>)
                     /\ tasks' = [tasks EXCEPT ![i] =
                            PC_AfterLookup(check, @.calls, hid, cache)]
    /\ UNCHANGED <<pc, auth_token, pingdom_checks, host_ids, check_names,
                   statuses, cycle, rpc_log, exit_cause, past_resolved,
                   aux_vars>>

\* task i resumes from the host.get of create_zabbix_host (line 107)
HostGet2Resp(i) ==
    /\ pc = "gather"
    /\ tasks[i].at = "host_get2"
    /\ \E out \in FetchOutcomes, body \in HostGetBodies :
        LET check == pingdom_checks[i]
            name == CreatedHost(check.name)
        IN  IF out # "return" \/ "result" \notin DOMAIN body
            THEN /\ tasks' = [tasks EXCEPT ![i] = Raised(@)]
                 /\ clean_cycle' = FALSE
                 /\ UNCHANGED host_id_cache
            ELSE LET hid == FoundHostId(body)
                     cache == CacheAfterGet(host_id_cache, name, hid)
                 IN  /\ host_id_cache' = cache
                     /\ clean_cycle' = (clean_cycle /\ body.result = <<>>)
                     /\ tasks' = [tasks EXCEPT ![i] =
                            CZH_AfterLookup(check, @.calls, hid, cache)]
    /\ UNCHANGED <<pc, auth_token, pingdom_checks, host_ids, check_names,
                   statuses, cycle, rpc_log, exit_cause, past_resolved,
                   aux_vars>>

\* task i resumes from the host.create of line 124
HostCreateResp(i) ==
    /\ pc = "gather"
    /\ tasks[i].at = "host_create"
    /\ \E out \in FetchOutcomes, body \in HostCreateBodies :
        LET check == pingdom_checks[i]
            name == CreatedHost(check.name)
        IN  IF out # "return"
            THEN /\ tasks' = [tasks EXCEPT ![i] = Raised(@)]
                 /\ clean_cycle' = FALSE
                 /\ UNCHANGED host_id_cache
            ELSE /\ host_id_cache' = CacheAfterCreate(host_id_cache, name, body)
                 /\ clean_cycle' = (clean_cycle /\ Truthy(CreatedHostId(body)))
                 /\ tasks' = [tasks EXCEPT ![i] =
                        PC_AfterCreate(check, @.calls, CreatedHostId(body))]
    /\ UNCHANGED <<pc, auth_token, pingdom_checks, host_ids, check_names,
                   statuses, cycle, rpc_log, exit_cause, past_resolved,
                   aux_vars>>


\* the test of line 266 on one result of gather
KeepResult(r) ==
    /\ r[1] # NoneV /\ Truthy(r[1][1])
    /\ r[2] # NoneV /\ r[2][1] # <<>>
    /\ r[3] # NoneV

\* the results of gather, in the order of the tasks, that pass line 266
KeptResults(ts) == SelectSeq([i \in DOMAIN ts |-> ts[i].result], KeepResult)

\* a task whose result gather has handed over: only the result is left
Collected(t) == [t EXCEPT !.calls = <<>>]

\* Mutant of GatherReturn: check_names is filled from every fetched check,
\* not only from the results that pass line 266.
GatherReturn_AllNames ==
    /\ pc = "gather"
    /\ \A i \in DOMAIN tasks : tasks[i].at = "returned"
    /\ LET kept == KeptResults(tasks)
           hids == [i \in 1..Len(kept) |-> kept[i][1][1]]
           names == [i \in DOMAIN pingdom_checks |-> pingdom_checks[i].name]
           sts == [i \in 1..Len(kept) |-> kept[i][3][1]]
       IN  /\ host_ids' = hids
           /\ check_names' = names
           /\ statuses' = sts
           /\ IF hids # <<>> /\ names # <<>> /\ sts # <<>>
              THEN /\ pc' = "item_create"
                   /\ rpc_log' = Append(rpc_log,
                         Call("item.create", ItemsPayload(hids, names)))
              ELSE /\ pc' = "sleep"
                   /\ UNCHANGED rpc_log
    /\ tasks' = [i \in DOMAIN tasks |-> Collected(tasks[i])]
    /\ UNCHANGED <<auth_token, host_id_cache, pingdom_checks, cycle,
                   exit_cause, past_resolved, clean_cycle, aux_vars>>

\* Mutant of GatherReturn: the test of line 271 is dropped, the mutators
\* run with whatever the batch holds.
GatherReturn_NoTest ==
    /\ pc = "gather"
    /\ \A i \in DOMAIN tasks : tasks[i].at = "returned"
    /\ LET kept == KeptResults(tasks)
           hids == [i \in 1..Len(kept) |-> kept[i][1][1]]
           names == [i \in 1..Len(kept) |-> kept[i][2][1]]
           sts == [i \in 1..Len(kept) |-> kept[i][3][1]]
       IN  /\ host_ids' = hids
           /\ check_names' = names
           /\ statuses' = sts
           /\ pc' = "item_create"
           /\ rpc_log' = Append(rpc_log,
                 Call("item.create", ItemsPayload(hids, names)))
    /\ tasks' = [i \in DOMAIN tasks |-> Collected(tasks[i])]
    /\ UNCHANGED <<auth_token, host_id_cache, pingdom_checks, cycle,
                   exit_cause, past_resolved, clean_cycle, aux_vars>>

\* results = await asyncio.gather(*tasks) returns: lines 263-273, up to
\* the await of item.create or, with nothing resolved, of the sleep
GatherReturn ==
    /\ pc = "gather"
    /\ \A i \in DOMAIN tasks : tasks[i].at = "returned"
    /\ LET kept == KeptResults(tasks)
           hids == [i \in 1..Len(kept) |-> kept[i][1][1]]
           names == [i \in 1..Len(kept) |-> kept[i][2][1]]
           sts == [i \in 1..Len(kept) |-> kept[i][3][1]]
       IN  /\ host_ids' = hids
           /\ check_names' = names
           /\ statuses' = sts
           /\ IF hids # <<>> /\ names # <<>> /\ sts # <<>>
              THEN /\ pc' = "item_create"
                   /\ rpc_log' = Append(rpc_log,
                         Call("item.create", ItemsPayload(hids, names)))
              ELSE /\ pc' = "sleep"
                   /\ UNCHANGED rpc_log
    /\ tasks' = [i \in DOMAIN tasks |-> Collected(tasks[i])]
    /\ UNCHANGED <<auth_token, host_id_cache, pingdom_checks, cycle,
                   exit_cause, past_resolved, clean_cycle, aux_vars>>

\* gather re-raises the exception of a task (no return_exceptions)
GatherRaise ==
    /\ pc = "gather"
    /\ \E i \in DOMAIN tasks : tasks[i].at = "raised"
    /\ Terminate("resolve")
    /\ UNCHANGED <<auth_token, host_id_cache, pingdom_checks, host_ids,
                   check_names, statuses, cycle, rpc_log, past_resolved,
                   clean_cycle, aux_vars>>

\* Mutant of ItemCreateResp: lines 275 and 277 swapped, item.update is
\* issued right after item.create.
ItemCreateResp_UpdateFirst ==
    /\ pc = "item_create"
    /\ \E out \in FetchOutcomes, body \in MutatorBodies :
        IF out # "return"
        THEN /\ Terminate("item.create")
             /\ rpc_log' = Append(rpc_log, Ended("item.create", "raise"))
             /\ clean_cycle' = FALSE
        ELSE /\ pc' = "item_update"
             /\ rpc_log' = rpc_log \o
                  <<MutatorEnd("item.create", body),
                    Call("item.update",
                         StatusPayload(host_ids, check_names, statuses))>>
             /\ clean_cycle' = (clean_cycle /\ "result" \in DOMAIN body)
             /\ UNCHANGED <<exit_cause, tasks>>
    /\ UNCHANGED <<auth_token, host_id_cache, pingdom_checks, host_ids,
                   check_names, statuses, cycle, past_resolved, aux_vars>>

\* await create_zabbix_item_batch(...) ends (line 273); line 275 issues
\* trigger.create
ItemCreateResp ==
    /\ pc = "item_create"
    /\ \E out \in FetchOutcomes, body \in MutatorBodies :
        IF out # "return"
        THEN /\ Terminate("item.create")
             /\ rpc_log' = Append(rpc_log, Ended("item.create", "raise"))
             /\ clean_cycle' = FALSE
        ELSE /\ pc' = "trigger_create"
             /\ rpc_log' = rpc_log \o
                  <<MutatorEnd("item.create", body),
                    Call("trigger.create",
                         TriggersPayload(host_ids, check_names))>>
             /\ clean_cycle' = (clean_cycle /\ "result" \in DOMAIN body)
             /\ UNCHANGED <<exit_cause, tasks>>
    /\ UNCHANGED <<auth_token, host_id_cache, pingdom_checks, host_ids,
                   check_names, statuses, cycle, past_resolved, aux_vars>>

\* await create_zabbix_trigger_batch(...) ends (line 275); line 277 issues
\* item.update
TriggerCreateResp ==
    /\ pc = "trigger_create"
    /\ \E out \in FetchOutcomes, body \in MutatorBodies :
        IF out # "return"
        THEN /\ Terminate("trigger.create")
             /\ rpc_log' = Append(rpc_log, Ended("trigger.create", "raise"))
             /\ clean_cycle' = FALSE
        ELSE /\ pc' = "item_update"
             /\ rpc_log' = rpc_log \o
                  <<MutatorEnd("trigger.create", body),
                    Call("item.update",
                         StatusPayload(host_ids, check_names, statuses))>>
             /\ clean_cycle' = (clean_cycle /\ "result" \in DOMAIN body)
             /\ UNCHANGED <<exit_cause, tasks>>
    /\ UNCHANGED <<auth_token, host_id_cache, pingdom_checks, host_ids,
                   check_names, statuses, cycle, past_resolved, aux_vars>>

\* await send_data_to_zabbix_batch(...) ends (line 277); line 279 sleeps
ItemUpdateResp ==
    /\ pc = "item_update"
    /\ \E out \in FetchOutcomes, body \in MutatorBodies :
        IF out # "return"
        THEN /\ Terminate("item.update")
             /\ rpc_log' = Append(rpc_log, Ended("item.update", "raise"))
             /\ clean_cycle' = FALSE
        ELSE /\ pc' = "sleep"
             /\ rpc_log' = Append(rpc_log, MutatorEnd("item.update", body))
             /\ clean_cycle' = (clean_cycle /\ "result" \in DOMAIN body)
             /\ UNCHANGED <<exit_cause, tasks>>
    /\ UNCHANGED <<auth_token, host_id_cache, pingdom_checks, host_ids,
                   check_names, statuses, cycle, past_resolved, aux_vars>>

\* every check of the cycle's fetch came back from process_check with an id
AllResolved ==
    \A i \in DOMAIN tasks : tasks[i].at = "returned" /\ KeepResult(tasks[i].result)
FetchedNames == {pingdom_checks[i].name : i \in DOMAIN pingdom_checks}
\* the id process_check returned for each check name of the cycle
ResolvedIds ==
    [n \in FetchedNames |->
        tasks[CHOOSE i \in DOMAIN tasks : pingdom_checks[i].name = n].result[1][1]]

\* await asyncio.sleep(60) ends (line 279): the next iteration of
\* while True issues get_pingdom_checks
Wake ==
    /\ pc = "sleep"
    /\ cycle < MaxCycles
    /\ pc' = "fetch"
    /\ cycle' = cycle + 1
    /\ rpc_log' = <<>>
    /\ clean_cycle' = FALSE
    /\ past_resolved' = IF AllResolved THEN past_resolved \cup {ResolvedIds}
                        ELSE past_resolved
    /\ UNCHANGED <<auth_token, host_id_cache, pingdom_checks, tasks, host_ids,
                   check_names, statuses, exit_cause, aux_vars>>

Next ==
    \/ LoginResp
    \/ FetchResp
    \/ \E i \in DOMAIN tasks : HostGetResp(i)
    \/ \E i \in DOMAIN tasks : HostGet2Resp(i)
    \/ \E i \in DOMAIN tasks : HostCreateResp(i)
    \/ GatherReturn
    \/ GatherRaise
    \/ ItemCreateResp
    \/ TriggerCreateResp
    \/ ItemUpdateResp
    \/ Wake

Spec == Init /\ [][Next]_vars

\* ------------------------------------------ fetch_with_retry on its own
InitRetry ==
    /\ MainInit
    /\ SanitizeIdle
    /\ FanoutIdle
    /\ fr_script \in Scripts(MaxResp)
    /\ fr_result = Pending

\* one call of fetch_with_retry, the server answering fr_script in order
FetchCall ==
    /\ fr_result = Pending
    /\ fr_result' = fetch_with_retry(fr_script)
    /\ UNCHANGED <<main_vars, fr_script, sanitize_vars, fanout_vars>>

NextRetry == FetchCall

SpecRetry == InitRetry /\ [][NextRetry]_vars

\* ---------------------------------------- sanitize_host_name on its own
\* Characters host names are built from: letters, a digit, the underscore
\* and characters outside the class of line 51.
Alphabet == {"a", "Z", "7", "_", " ", "-", ".", "/"}

RECURSIVE Strings(_)
Strings(n) ==
    IF n = 0 THEN {<<>>}
    ELSE LET shorter == Strings(n - 1)
         IN  shorter \cup {Append(x, c) : x \in {y \in shorter : Len(y) = n - 1},
                                          c \in Alphabet}

InitSanitize ==
    /\ MainInit
    /\ RetryIdle
    /\ FanoutIdle
    /\ sn_pc = "input"
    /\ sn_input \in Strings(MaxLen)
    /\ sn_once = <<>>
    /\ sn_twice = <<>>

\* sanitized_host_name = sanitize_host_name(host_name) in process_check
\* (line 231)
SanitizeOnce ==
    /\ sn_pc = "input"
    /\ sn_once' = sanitize_host_name(sn_input)
    /\ sn_pc' = "once"
    /\ UNCHANGED <<main_vars, retry_vars, fanout_vars, sn_input, sn_twice>>

\* create_zabbix_host sanitizes the name it is handed again (line 106)
SanitizeAgain ==
    /\ sn_pc = "once"
    /\ sn_twice' = sanitize_host_name(sn_once)
    /\ sn_pc' = "twice"
    /\ UNCHANGED <<main_vars, retry_vars, fanout_vars, sn_input, sn_once>>

NextSanitize == SanitizeOnce \/ SanitizeAgain

SpecSanitize == InitSanitize /\ [][NextSanitize]_vars

\* ------------------------------- the fan-out of one cycle on its own
\* One cycle with many checks.  A task is followed from its start to its
\* end only; its remote calls are the actions of Spec.
InitFanout ==
    /\ MainInit
    /\ RetryIdle
    /\ SanitizeIdle
    /\ fan_pc = "fetch"
    /\ fan_n \in 0..MaxFetched
    /\ fan_tasks = <<>>

\* lines 260-261: one process_check coroutine per fetched check, all handed
\* to asyncio.gather, which schedules every one of them; each runs up to
\* its first await before gather's caller is resumed
FanGather ==
    /\ fan_pc = "fetch"
    /\ fan_tasks' = [i \in 1..fan_n |-> "in_flight"]
    /\ fan_pc' = "gather"
    /\ UNCHANGED <<main_vars, retry_vars, sanitize_vars, fan_n>>

\* process_check of check i returns (lines 240, 244) or raises
FanTaskEnds(i) ==
    /\ fan_pc = "gather"
    /\ fan_tasks[i] = "in_flight"
    /\ fan_tasks' = [fan_tasks EXCEPT ![i] = "ended"]
    /\ UNCHANGED <<main_vars, retry_vars, sanitize_vars, fan_pc, fan_n>>

\* results = await asyncio.gather(*tasks) is resumed (line 261)
FanGatherEnds ==
    /\ fan_pc = "gather"
    /\ \A i \in DOMAIN fan_tasks : fan_tasks[i] = "ended"
    /\ fan_pc' = "collect"
    /\ UNCHANGED <<main_vars, retry_vars, sanitize_vars, fan_n, fan_tasks>>

NextFanout ==
    \/ FanGather
    \/ \E i \in DOMAIN fan_tasks : FanTaskEnds(i)
    \/ FanGatherEnds

SpecFanout == InitFanout /\ [][NextFanout]_vars


\* ============================================================== claims
\* ---- fetch_with_retry (SpecRetry)
Called == fr_result # Pending
Retryable(k) == fr_script[k] \in StatusForcelist

\* C3: a call whose first three responses are 503 and whose next response
\* is 200 succeeds and returns the body of the 200 response.
C3_Three503Then200Succeeds ==
    (Called /\ fr_script[1] = 503 /\ fr_script[2] = 503 /\ fr_script[3] = 503
        /\ fr_script[4] = 200)
    => (fr_result.kind = "return" /\ fr_result.resp = 4)

\* C4: one call makes at most 3 HTTP attempts; when every attempt returns a
\* retryable status the call ends in an error after the 3rd attempt and no
\* further attempt is made.
C4_AtMostThreeAttempts ==
    Called =>
        /\ fr_result.attempts <= 3
        /\ (\A k \in 1..3 : Retryable(k)) =>
              (fr_result.kind = "max_retries" /\ fr_result.attempts = 3)

C4_Witness ==
    /\ Called
    /\ \A k \in 1..3 : Retryable(k)
    /\ fr_script[4] = 200
    /\ fr_result.kind = "max_retries"

\* C5: an attempt answered with an HTTP error status outside
\* {429, 500, 502, 503, 504} propagates the error right after that attempt,
\* whichever attempt it is: no backoff wait follows it and no further
\* attempt is made.
C5_NonRetryablePropagates ==
    \A k \in 1..3 :
        (Called /\ (\A j \in 1..(k - 1) : Retryable(j))
            /\ fr_script[k] >= 400 /\ fr_script[k] \notin {429, 500, 502, 503, 504})
        => /\ fr_result.kind = "raise"
           /\ fr_result.resp = k
           /\ fr_result.attempts = k
           /\ Len(fr_result.sleeps) = k - 1

C5_Witness ==
    /\ Called
    /\ fr_script[1] = 503 /\ fr_script[2] = 404 /\ fr_script[3] = 200
    /\ fr_result.kind = "raise"
    /\ fr_result.attempts = 2

\* ---- main_async (Spec)
Count(seq, x) == Cardinality({k \in DOMAIN seq : seq[k] = x})
Resolved(t) == t.at = "returned" /\ t.result[1] # NoneV
\* the host.create of the task came back malformed, or raised
CreationFailed(t) ==
    \/ t.at = "returned" /\ t.result = FailedResult
    \/ t.at = "raised" /\ t.calls # <<>> /\ t.calls[Len(t.calls)] = "host.create"
Issued(method) ==
    \E k \in DOMAIN rpc_log : rpc_log[k].method = method /\ rpc_log[k].ev = "call"
\* the batch handed to the mutators holds the entry of task i
InBatch(i) ==
    /\ Issued("item.create")
    /\ \E j \in DOMAIN host_ids :
        /\ j \in DOMAIN check_names /\ j \in DOMAIN statuses
        /\ Some(host_ids[j]) = tasks[i].result[1]
        /\ check_names[j] = pingdom_checks[i].name
        /\ statuses[j] = StatusValue(pingdom_checks[i].status)
CycleOver == pc \in {"sleep", "done"} /\ exit_cause \notin {"login", "fetch"}

\* C1: in a cycle that fetches checks A, B and C, if B's host creation
\* fails, the batch passed to the mutators in that cycle still contains the
\* entries of A and C whenever their own resolutions succeeded.
C1_ResolutionIsolation ==
    \A a, b, c \in DOMAIN tasks :
        (CycleOver /\ a # b /\ b # c /\ a # c
            /\ CreationFailed(tasks[b])
            /\ Resolved(tasks[a]) /\ Resolved(tasks[c]))
        => (InBatch(a) /\ InBatch(c))

\* C2: once login and the first fetch have succeeded the loop never
\* terminates: main_async ends only on a login failure or a failure of the
\* first fetch.
C2_LoopEndsOnlyAtStartup ==
    pc = "done" =>
        (exit_cause = "login" \/ (exit_cause = "fetch" /\ cycle = 1))

\* C6: resolving one check issues at most two remote calls, at most one
\* host.get and at most one host.create.
C6_AtMostOneFindCreatePair ==
    \A i \in DOMAIN tasks :
        /\ Len(tasks[i].calls) <= 2
        /\ Count(tasks[i].calls, "host.get") <= 1
        /\ Count(tasks[i].calls, "host.create") <= 1

\* the fetch of the current cycle has returned pingdom_checks
Fetched == pc \notin {"login", "fetch"} /\ exit_cause \notin {"login", "fetch"}

\* C7: if a cycle resolved every fetched check, a later cycle that fetches
\* the same check names issues no host.get and no host.create (every
\* resolution is a cache hit returning the same id as before), and
\* item.create, trigger.create and item.update are each issued again in it.
C7_ReRunIsCacheHit ==
    \A f \in past_resolved :
        (Fetched /\ FetchedNames # {} /\ DOMAIN f = FetchedNames)
        => /\ \A i \in DOMAIN tasks :
                /\ tasks[i].calls = <<>>
                /\ tasks[i].at = "returned"
                /\ tasks[i].result[1] = Some(f[pingdom_checks[i].name])
           /\ pc \in {"sleep", "done"} =>
                (Issued("item.create") /\ Issued("trigger.create")
                    /\ Issued("item.update"))

\* C8: once host_id_cache holds an id for an entity name, no later step
\* removes the entry or replaces it with a different id.
C8_CacheNeverInvalidated ==
    [][\A n \in DOMAIN host_id_cache :
          n \in DOMAIN host_id_cache' /\ host_id_cache'[n] = host_id_cache[n]]_vars

\* the tasks that returned an id, and the rank of one among them
ResolvedTasks == {i \in DOMAIN tasks : Resolved(tasks[i])}
Rank(i) == Cardinality({k \in ResolvedTasks : k <= i})
Mutating == pc \in {"item_create", "trigger_create", "item_update"}

\* C9: at every call of a mutator host_ids, check_names and statuses have
\* the same length, the three values at an index belong to one fetched check
\* (its resolved host id, its name, its status value), and a check whose
\* resolution failed contributes to none of them.
C9_BatchAligned ==
    Mutating =>
        /\ Len(host_ids) = Len(check_names)
        /\ Len(host_ids) = Len(statuses)
        /\ Len(host_ids) = Cardinality(ResolvedTasks)
        /\ \A i \in ResolvedTasks :
            /\ Some(host_ids[Rank(i)]) = tasks[i].result[1]
            /\ check_names[Rank(i)] = pingdom_checks[i].name
            /\ statuses[Rank(i)] = (IF pingdom_checks[i].status = "up" THEN 1 ELSE 0)

C9_Witness ==
    /\ pc = "item_update"
    /\ Len(pingdom_checks) = 3
    /\ tasks[2].result = FailedResult
    /\ Len(host_ids) = 2
    /\ host_ids[1] # host_ids[2]
    /\ statuses = <<0, 1>>

MutatorOrder == <<"item.create", "trigger.create", "item.update">>
ReturnEvents == {"return", "return_error"}

\* C10: within one cycle the mutators run strictly in the order item.create,
\* trigger.create, item.update: each is issued only after the one before it
\* has returned, no two are in flight together, each is issued at most once,
\* with exactly one payload entry per resolved check.
C10_MutatorsInOrder ==
    /\ Len(rpc_log) <= 6
    /\ \A k \in DOMAIN rpc_log :
        /\ rpc_log[k].method = MutatorOrder[(k + 1) \div 2]
        /\ (k % 2 = 1) =>
              /\ rpc_log[k].ev = "call"
              /\ Len(rpc_log[k].params) = Cardinality(ResolvedTasks)
              /\ k > 1 => rpc_log[k - 1].ev \in ReturnEvents
        /\ (k % 2 = 0) => rpc_log[k].ev \in ReturnEvents \cup {"raise"}

C10_Witness ==
    /\ pc = "sleep"
    /\ Len(rpc_log) = 6
    /\ Len(rpc_log[5].params) = 2
    /\ Len(pingdom_checks) = 3

\* C11: no item.create, trigger.create or item.update is issued in a cycle
\* whose fetch failed, whose fetch returned no check, or in which no check
\* was resolved.
C11_NoMutatorWithoutBatch ==
    (\/ pc = "fetch"
     \/ exit_cause = "fetch"
     \/ Fetched /\ pingdom_checks = <<>>
     \/ Fetched /\ ResolvedTasks = {})
    => rpc_log = <<>>

C11_Witness ==
    /\ pc = "sleep"
    /\ Len(pingdom_checks) = 2
    /\ \A i \in DOMAIN tasks : tasks[i].result = FailedResult
    /\ rpc_log = <<>>

\* C12: in every cycle in which at least one check was resolved item.update
\* is issued, whatever the outcome of that cycle's item.create and
\* trigger.create.
C12_StatusPushedAnyway ==
    (pc \in {"sleep", "done"} /\ exit_cause \notin {"login", "fetch", "resolve"}
        /\ ResolvedTasks # {})
    => Issued("item.update")

\* C13: if login fails, main_async ends at once: no fetch, no host.get or
\* host.create and no mutator call is issued afterwards, and host_id_cache
\* is left as it was.
C13_LoginFailureEndsRun ==
    exit_cause = "login" =>
        /\ pc = "done"
        /\ ~ ENABLED Next
        /\ auth_token = None
        /\ cycle = 1
        /\ pingdom_checks = <<>>
        /\ tasks = <<>>
        /\ rpc_log = <<>>
        /\ host_id_cache = EmptyCache

C13_Witness ==
    /\ exit_cause = "login"
    /\ pc = "done"
    /\ auth_token = None

\* every remote call of the current cycle has succeeded so far and no
\* fetched check had a host, in the cache or on the server
FreshCycle == Fetched /\ clean_cycle /\ pingdom_checks # <<>>
DistinctEntities ==
    \A i, j \in DOMAIN pingdom_checks :
        i # j => EntityName(pingdom_checks[i].name) # EntityName(pingdom_checks[j].name)
\* one host.create for each check that came back, named after the check
OneCreatePerCheck ==
    \A i \in DOMAIN tasks :
        (pc = "gather" /\ tasks[i].at = "returned") =>
            /\ Count(tasks[i].calls, "host.create") = 1
            /\ CreatedHost(pingdom_checks[i].name)
                  = Prefix \o sanitize_host_name(pingdom_checks[i].name)
\* the three mutators were called once each, in order, with one entry per
\* fetched check, in the fetched order
EntriesInFetchedOrder ==
    pc = "sleep" =>
        /\ Len(rpc_log) = 6
        /\ \A k \in 1..3 :
            /\ rpc_log[2 * k - 1].method = MutatorOrder[k]
            /\ rpc_log[2 * k - 1].ev = "call"
            /\ Len(rpc_log[2 * k - 1].params) = Len(pingdom_checks)
            /\ rpc_log[2 * k].ev = "return"
        /\ \A i \in DOMAIN pingdom_checks :
            /\ tasks[i].result[1] # NoneV
            /\ rpc_log[1].params[i].name = pingdom_checks[i].name
            /\ rpc_log[1].params[i].hostid = tasks[i].result[1][1]
            /\ rpc_log[3].params[i].hostid = tasks[i].result[1][1]
            /\ rpc_log[5].params[i].hostid = tasks[i].result[1][1]
            /\ rpc_log[5].params[i].key_ = rpc_log[1].params[i].key_
            /\ rpc_log[5].params[i].value =
                  (IF pingdom_checks[i].status = "up" THEN 1 ELSE 0)

C15_SanitizeIdempotent ==
    /\ sn_pc \in {"once", "twice"} =>
        /\ Len(sn_once) = Len(sn_input)
        /\ \A k \in DOMAIN sn_once :
              sn_once[k] \in LowerChars \cup UpperChars \cup DigitChars \cup {"_"}
    /\ sn_pc = "twice" => sn_twice = sn_once

C15_Witness ==
    /\ sn_pc = "twice"
    /\ sn_input = <<"a", "-", " ">>
    /\ sn_once = <<"a", "_", "_">>
    /\ sn_twice = sn_once

\* no other check of the cycle's fetch has the entity name of check i
Alone(i) ==
    \A j \in DOMAIN pingdom_checks :
        j # i => EntityName(pingdom_checks[j].name) # EntityName(pingdom_checks[i].name)
\* the step that answers the fetch and starts the tasks of a cycle
FetchStep == pc = "fetch" /\ pc' = "gather"
\* task j of the starting cycle is for the check of task i of the cycle before
SameCheck(i, j) == pingdom_checks'[j].name = pingdom_checks[i].name

\* C16 (as stated, first half): if a check's host.create fails in some
\* cycle, host_id_cache holds no entry for that check's entity name at the
\* end of that cycle.
C16_NoEntryAfterFailedCreate ==
    \A i \in DOMAIN tasks :
        (CycleOver /\ CreationFailed(tasks[i]))
        => EntityName(pingdom_checks[i].name) \notin DOMAIN host_id_cache

\* C16 (amended): if a check's host.create fails in some cycle and no other
\* check fetched in that cycle has the same entity name, host_id_cache holds
\* no entry for that entity name at the end of that cycle, and when the next
\* cycle fetches the check a lookup (host.get) is issued for it again.
C16_FailedCreateIsRetried ==
    /\ [](\A i \in DOMAIN tasks :
            (CycleOver /\ CreationFailed(tasks[i]) /\ Alone(i))
            => EntityName(pingdom_checks[i].name) \notin DOMAIN host_id_cache)
    /\ [][FetchStep =>
            \A i \in DOMAIN tasks : \A j \in DOMAIN tasks' :
                (CreationFailed(tasks[i]) /\ Alone(i) /\ SameCheck(i, j))
                => (tasks'[j].at = "host_get" /\ tasks'[j].calls = <<"host.get">>)]_vars

C16_Witness ==
    /\ pc = "fetch"
    /\ cycle = 2
    /\ Len(pingdom_checks) = 2
    /\ CreationFailed(tasks[1]) /\ Alone(1)
    /\ Resolved(tasks[2])
    /\ EntityName(pingdom_checks[1].name) \notin DOMAIN host_id_cache
    /\ EntityName(pingdom_checks[2].name) \in DOMAIN host_id_cache

\* ---- fetch_with_retry (SpecRetry)
\* the attempt got no HTTP answer (timeout, connection error), or a
\* retryable status
Transient(k) == fr_script[k] = NoStatus \/ Retryable(k)

\* C17: an attempt that fails at network level (no HTTP status) is treated
\* as transient: unless it was the last attempt allowed, another attempt
\* follows it after a backoff wait, and the call fails only once the
\* attempt cap is reached.
C17_NetworkFailureRetried ==
    \A k \in 1..2 :
        (Called /\ (\A j \in 1..(k - 1) : Transient(j)) /\ fr_script[k] = NoStatus)
        => /\ fr_result.attempts > k
           /\ Len(fr_result.sleeps) >= k
           /\ fr_result.kind # "return" => fr_result.attempts = 3

\* ---- the fan-out of a cycle (SpecFanout)
InFlight == Cardinality({i \in DOMAIN fan_tasks : fan_tasks[i] = "in_flight"})

\* C18: while the checks of a cycle are being resolved, at most 10
\* resolutions are in flight at the same time, however many checks the
\* fetch returned.
C18_AtMostTenInFlight == InFlight <= 10

\* ---- main_async (Spec)
\* C19: within one run host.create is never issued for an entity name for
\* which a host.create is still in flight (or has already succeeded): no two
\* host.create calls for one entity name are in flight together, in any
\* interleaving, also for two check names that sanitize to the same name.
C19_NoDuplicateCreate ==
    \A i, j \in DOMAIN tasks :
        (pc = "gather" /\ i # j
            /\ tasks[i].at = "host_create" /\ tasks[j].at = "host_create")
        => CreatedHost(pingdom_checks[i].name) # CreatedHost(pingdom_checks[j].name)

\* C20: in every entry of a trigger.create payload the host named in the
\* expression is the entity name of the host whose id is in the entry, and
\* the item key in the expression is the key item.create registered for
\* that check, whatever characters the check name holds.
C20_TriggerNamesItsHost ==
    \A k \in DOMAIN rpc_log :
        (rpc_log[k].method = "trigger.create" /\ rpc_log[k].ev = "call") =>
            \A j \in DOMAIN rpc_log[k].params :
                /\ rpc_log[k].params[j].hostid = host_ids[j]
                /\ rpc_log[k].params[j].expression =
                      <<"{">> \o EntityName(check_names[j]) \o <<":">>
                        \o rpc_log[1].params[j].key_ \o <<".last()}=0">>

=============================================================================
